---- MODULE Spec2Model ----
(***************************************************************************)
(* Network clients of core.nodes.netclient: LinuxNetClient and             *)
(* OvsNetClient translate bridge / interface operations into commands      *)
(* handed to an injected `run` function.  A string is a sequence of        *)
(* one-character strings, so that str.split is computed, not assumed.      *)
(***************************************************************************)
EXTENDS Naturals, Integers, Sequences, FiniteSets, TLC

\* ------------------------------------------------------------ bounds
\* longest bridge listing a host starts with (residue of earlier runs)
MaxListing == 2
\* longest free call script of the sequential caller
MaxCalls == 2

\* ------------------------------------------------------------ strings
DOT == "."
NL == "\n"

\* bridge names found on hosts; "b.5.0" is the identity token of node 5
Nb50 == <<"b", ".", "5", ".", "0">>
Nb51 == <<"b", ".", "5", ".", "1">>
Nb70 == <<"b", ".", "7", ".", "0">>
Nb5 == <<"b", ".", "5">>
Nb501 == <<"b", ".", "5", ".", "0", ".", "1">>
Nf5 == <<"f", ".", "5">>
Nf50 == <<"f", ".", "5", ".", "0">>
Nb == <<"b">>
Nr0 == <<"r", "0">>
Veth0 == <<"v", "0">>
Veth1 == <<"v", "1">>
Id5 == <<"5">>
Id7 == <<"7">>

BridgeNames == {Nb50, Nb51, Nb70, Nb5, Nb501, Nf5, Nf50, Nb, Nr0}
Ids == {Id5, Id7}
Ifaces == {Veth0, Veth1}

\* str.split(sep): the fields between the separators, [""] for ""
RECURSIVE Split(_, _)
Split(s, sep) ==
    IF \A i \in 1..Len(s) : s[i] # sep
    THEN <<s>>
    ELSE LET i == CHOOSE k \in 1..Len(s) :
                      s[k] = sep /\ \A j \in 1..(k - 1) : s[j] # sep
         IN  <<SubSeq(s, 1, i - 1)>> \o Split(SubSeq(s, i + 1, Len(s)), sep)

\* sep.join(items), what the host prints for a plain listing
RECURSIVE Join(_, _)
Join(items, sep) ==
    IF items = <<>> THEN <<>>
    ELSE IF Len(items) = 1 THEN items[1]
    ELSE items[1] \o <<sep>> \o Join(Tail(items), sep)

\* ------------------------------------------------------------ JSON
\* JSON text as tokens: punctuation, and string literals carrying their text
Tok(t) == [t |-> t, v |-> <<>>]
Str(v) == [t |-> "str", v |-> v]
KIfname == <<"i", "f", "n", "a", "m", "e">>
KLink == <<"l", "i", "n", "k">>

\* one object of `ip -j link show`: {"link": ..., "ifname": ...}
JsonObject(name) ==
    <<Tok("{"), Str(KLink), Tok(":"), Str(<<>>), Tok(","),
      Str(KIfname), Tok(":"), Str(name), Tok("}")>>

RECURSIVE JsonObjects(_)
JsonObjects(names) ==
    IF names = <<>> THEN <<>>
    ELSE IF Len(names) = 1 THEN JsonObject(names[1])
    ELSE JsonObject(names[1]) \o <<Tok(",")>> \o JsonObjects(Tail(names))

JsonDump(names) == <<Tok("[")>> \o JsonObjects(names) \o <<Tok("]")>>

\* json.loads of a list of flat objects: a sequence of sets of <<key, value>>;
\* ParseMembers reads key/value pairs up to the closing brace
RECURSIVE ParseMembers(_, _, _)
ParseMembers(toks, i, acc) ==
    IF toks[i].t = "}" THEN [obj |-> acc, next |-> i + 1]
    ELSE IF toks[i].t = "," THEN ParseMembers(toks, i + 1, acc)
    ELSE ParseMembers(toks, i + 3, acc \cup {<<toks[i].v, toks[i + 2].v>>})

RECURSIVE ParseItems(_, _, _)
ParseItems(toks, i, acc) ==
    IF toks[i].t = "]" THEN acc
    ELSE IF toks[i].t = "," THEN ParseItems(toks, i + 1, acc)
    ELSE LET m == ParseMembers(toks, i + 1, {})
         IN  ParseItems(toks, m.next, Append(acc, m.obj))

JsonLoads(toks) == ParseItems(toks, 2, <<>>)

\* obj[key] of a parsed object
Get(obj, key) == (CHOOSE p \in obj : p[1] = key)[2]

\* ------------------------------------------------------------ commands
\* A command line is an f-string: its template pieces and the values
\* interpolated into them, plus the shell flag handed to run().
Cmd(tpl, args) == [tpl |-> tpl, args |-> args, shell |-> FALSE]
ShellCmd(tpl, args) == [tpl |-> tpl, args |-> args, shell |-> TRUE]

T_up == "{IP_BIN} link set {device} up"
T_down == "{IP_BIN} link set {device} down"
T_flush == "[ -e /sys/class/net/{device} ] && {IP_BIN} -6 address flush dev {device} || true"
T_br_add == "{IP_BIN} link add name {name} type bridge"
T_br_stp == "{IP_BIN} link set {name} type bridge stp_state 0"
T_br_fd == "{IP_BIN} link set {name} type bridge forward_delay 0"
T_br_mcast == "{IP_BIN} link set {name} type bridge mcast_snooping 0"
T_br_del == "{IP_BIN} link delete {name} type bridge"
T_master == "{IP_BIN} link set dev {interface_name} master {bridge_name}"
T_nomaster == "{IP_BIN} link set dev {interface_name} nomaster"
T_br_list == "{IP_BIN} -j link show type bridge"
T_br_ageing == "{IP_BIN} link set {name} type bridge ageing_time 0"
T_ovs_add == "{OVS_BIN} add-br {name}"
T_ovs_stp == "{OVS_BIN} set bridge {name} stp_enable=false"
T_ovs_maxage == "{OVS_BIN} set bridge {name} other_config:stp-max-age=6"
T_ovs_fd == "{OVS_BIN} set bridge {name} other_config:stp-forward-delay=4"
T_ovs_del == "{OVS_BIN} del-br {name}"
T_ovs_addport == "{OVS_BIN} add-port {bridge_name} {interface_name}"
T_ovs_delport == "{OVS_BIN} del-port {bridge_name} {interface_name}"
T_ovs_list == "{OVS_BIN} list-br"
T_ovs_aging == "{OVS_BIN} set bridge {name} other_config:mac-aging-time=0"
T_hostname == "hostname {name}"
T_route_add == "{IP_BIN} route add {route} dev {device}"
T_name == "{IP_BIN} link set {device} name {name}"
T_show == "{IP_BIN} link show {device}"
T_cat_address == "cat /sys/class/net/{device}/address"
T_cat_ifindex == "cat /sys/class/net/{device}/ifindex"
T_netns == "{IP_BIN} link set {device} netns {namespace}"
T_mac == "{IP_BIN} link set dev {device} address {mac}"
T_link_del == "{IP_BIN} link delete {device}"
T_tc_del == "{TC_BIN} qdisc delete dev {device} root"
T_csum_off == "{ETHTOOL_BIN} -K {interface_name} rx off tx off"
T_addr_add_bc == "{IP_BIN} address add {address} broadcast {broadcast} dev {device}"
T_addr_add == "{IP_BIN} address add {address} dev {device}"
T_addr_del == "{IP_BIN} address delete {address} dev {device}"
T_veth_add == "{IP_BIN} link add name {name} type veth peer name {peer}"
T_gretap == "{IP_BIN} link add {device} type gretap remote {address}"
T_gre_local == " local {local}"
T_gre_ttl == " ttl {ttl}"
T_gre_key == " key {key}"

\* ------------------------------------------------------------ arguments
\* An optional argument: None, a string or an integer.
None == [some |-> FALSE, s |-> <<>>, n |-> 0]
SomeStr(v) == [some |-> TRUE, s |-> v, n |-> 0]
SomeInt(k) == [some |-> TRUE, s |-> <<>>, n |-> k]

\* f"{k}" of a non-negative integer: its decimal digits
Digits == <<"0", "1", "2", "3", "4", "5", "6", "7", "8", "9">>
RECURSIVE FmtInt(_)
FmtInt(k) ==
    IF k < Len(Digits) THEN <<Digits[k + 1]>>
    ELSE FmtInt(k \div Len(Digits)) \o <<Digits[(k % Len(Digits)) + 1]>>

\* ------------------------------------------------------------ LinuxNetClient
\* Each method is the sequence of self.run(...) calls of its body.
device_up(device) == <<Cmd(<<T_up>>, <<device>>)>>

device_down(device) == <<Cmd(<<T_down>>, <<device>>)>>

device_flush(device) == <<ShellCmd(<<T_flush>>, <<device, device>>)>>

set_hostname(name) == <<Cmd(<<T_hostname>>, <<name>>)>>

create_route(route, device) == <<Cmd(<<T_route_add>>, <<route, device>>)>>

device_name(device, name) == <<Cmd(<<T_name>>, <<device, name>>)>>

device_show(device) == <<Cmd(<<T_show>>, <<device>>)>>

get_mac(device) == <<Cmd(<<T_cat_address>>, <<device>>)>>

get_ifindex(device) == <<Cmd(<<T_cat_ifindex>>, <<device>>)>>

device_ns(device, namespace) == <<Cmd(<<T_netns>>, <<device, namespace>>)>>

device_mac(device, mac) == <<Cmd(<<T_mac>>, <<device, mac>>)>>

delete_device(device) == <<Cmd(<<T_link_del>>, <<device>>)>>

delete_tc(device) == <<Cmd(<<T_tc_del>>, <<device>>)>>

checksums_off(interface_name) == <<Cmd(<<T_csum_off>>, <<interface_name>>)>>

\* variant: the broadcast clause left out of the command
create_address_no_bc(device, address, broadcast) ==
    <<Cmd(<<T_addr_add>>, <<address, device>>)>>

create_address(device, address, broadcast) ==
    IF broadcast # None
    THEN <<Cmd(<<T_addr_add_bc>>, <<address, broadcast.s, device>>)>>
    ELSE <<Cmd(<<T_addr_add>>, <<address, device>>)>>

delete_address(device, address) == <<Cmd(<<T_addr_del>>, <<address, device>>)>>

create_veth(name, peer) == <<Cmd(<<T_veth_add>>, <<name, peer>>)>>

\* variant: the modifiers tested for truth, so that a ttl or key of 0 is lost
create_gretap_truthy(device, address, local, ttl, key) ==
    LET c0 == [tpl |-> <<T_gretap>>, args |-> <<device, address>>]
        c1 == IF local # None /\ local.s # <<>>
              THEN [tpl |-> Append(c0.tpl, T_gre_local),
                    args |-> Append(c0.args, local.s)]
              ELSE c0
        c2 == IF ttl # None /\ ttl.n # 0
              THEN [tpl |-> Append(c1.tpl, T_gre_ttl),
                    args |-> Append(c1.args, FmtInt(ttl.n))]
              ELSE c1
        c3 == IF key # None /\ key.n # 0
              THEN [tpl |-> Append(c2.tpl, T_gre_key),
                    args |-> Append(c2.args, FmtInt(key.n))]
              ELSE c2
    IN  <<Cmd(c3.tpl, c3.args)>>

\* cmd grows by one piece for each modifier that is not None
create_gretap(device, address, local, ttl, key) ==
    LET c0 == [tpl |-> <<T_gretap>>, args |-> <<device, address>>]
        c1 == IF local # None
              THEN [tpl |-> Append(c0.tpl, T_gre_local),
                    args |-> Append(c0.args, local.s)]
              ELSE c0
        c2 == IF ttl # None
              THEN [tpl |-> Append(c1.tpl, T_gre_ttl),
                    args |-> Append(c1.args, FmtInt(ttl.n))]
              ELSE c1
        c3 == IF key # None
              THEN [tpl |-> Append(c2.tpl, T_gre_key),
                    args |-> Append(c2.args, FmtInt(key.n))]
              ELSE c2
    IN  <<Cmd(c3.tpl, c3.args)>>

\* variant: the link-up issued before the bridge exists
Linux_create_bridge_up_first(name) ==
    device_up(name)
        \o <<Cmd(<<T_br_add>>, <<name>>),
             Cmd(<<T_br_stp>>, <<name>>),
             Cmd(<<T_br_fd>>, <<name>>),
             Cmd(<<T_br_mcast>>, <<name>>)>>

\* variant: the bridge listing consulted before the add
Linux_create_bridge_checked(name) ==
    <<Cmd(<<T_br_list>>, <<>>),
      Cmd(<<T_br_add>>, <<name>>),
      Cmd(<<T_br_stp>>, <<name>>),
      Cmd(<<T_br_fd>>, <<name>>),
      Cmd(<<T_br_mcast>>, <<name>>)>> \o device_up(name)

\* variant: the bridge added under one name whatever the caller asked for
Linux_create_bridge_fixed_name(name) ==
    <<Cmd(<<T_br_add>>, <<Nb50>>),
      Cmd(<<T_br_stp>>, <<name>>),
      Cmd(<<T_br_fd>>, <<name>>),
      Cmd(<<T_br_mcast>>, <<name>>)>> \o device_up(name)

Linux_create_bridge(name) ==
    <<Cmd(<<T_br_add>>, <<name>>),
      Cmd(<<T_br_stp>>, <<name>>),
      Cmd(<<T_br_fd>>, <<name>>),
      Cmd(<<T_br_mcast>>, <<name>>)>> \o device_up(name)

\* variant: the bridge deleted while still up
Linux_delete_bridge_del_first(name) ==
    <<Cmd(<<T_br_del>>, <<name>>)>> \o device_down(name)

Linux_delete_bridge(name) ==
    device_down(name) \o <<Cmd(<<T_br_del>>, <<name>>)>>

\* variant: the interface attached and not brought up
Linux_create_interface_no_up(bridge_name, interface_name) ==
    <<Cmd(<<T_master>>, <<interface_name, bridge_name>>)>>

Linux_create_interface(bridge_name, interface_name) ==
    <<Cmd(<<T_master>>, <<interface_name, bridge_name>>)>>
        \o device_up(interface_name)

\* variant: detach that also disables the interface
Linux_delete_interface_down(bridge_name, interface_name) ==
    <<Cmd(<<T_nomaster>>, <<interface_name>>)>> \o device_down(interface_name)

Linux_delete_interface(bridge_name, interface_name) ==
    <<Cmd(<<T_nomaster>>, <<interface_name>>)>>

Linux_existing_bridges_cmd == <<Cmd(<<T_br_list>>, <<>>)>>

\* the loop over json.loads(output) of LinuxNetClient.existing_bridges
\* variant: the node id looked for in the sequence field
RECURSIVE Linux_scan_wrong_field(_, _)
Linux_scan_wrong_field(bridges, id) ==
    IF bridges = <<>> THEN "False"
    ELSE LET name == Get(Head(bridges), KIfname)
             fields == Split(name, DOT)
         IN  IF Len(fields) # 3 THEN Linux_scan_wrong_field(Tail(bridges), id)
             ELSE IF fields[1] = <<"b">> /\ fields[3] = id THEN "True"
             ELSE Linux_scan_wrong_field(Tail(bridges), id)

RECURSIVE Linux_scan(_, _)
Linux_scan(bridges, id) ==
    IF bridges = <<>> THEN "False"
    ELSE LET name == Get(Head(bridges), KIfname)
             fields == Split(name, DOT)
         IN  IF Len(fields) # 3 THEN Linux_scan(Tail(bridges), id)
             ELSE IF fields[1] = <<"b">> /\ fields[2] = id THEN "True"
             ELSE Linux_scan(Tail(bridges), id)

Linux_existing_bridges(output, id) == Linux_scan(JsonLoads(output), id)

Linux_disable_mac_learning(name) == <<Cmd(<<T_br_ageing>>, <<name>>)>>

\* ------------------------------------------------------------ OvsNetClient
\* variant: the config keys set before STP is disabled
Ovs_create_bridge_stp_late(name) ==
    <<Cmd(<<T_ovs_add>>, <<name>>),
      Cmd(<<T_ovs_maxage>>, <<name>>),
      Cmd(<<T_ovs_fd>>, <<name>>),
      Cmd(<<T_ovs_stp>>, <<name>>)>> \o device_up(name)

Ovs_create_bridge(name) ==
    <<Cmd(<<T_ovs_add>>, <<name>>),
      Cmd(<<T_ovs_stp>>, <<name>>),
      Cmd(<<T_ovs_maxage>>, <<name>>),
      Cmd(<<T_ovs_fd>>, <<name>>)>> \o device_up(name)

Ovs_delete_bridge(name) ==
    device_down(name) \o <<Cmd(<<T_ovs_del>>, <<name>>)>>

Ovs_create_interface(bridge_name, interface_name) ==
    <<Cmd(<<T_ovs_addport>>, <<bridge_name, interface_name>>)>>
        \o device_up(interface_name)

Ovs_delete_interface(bridge_name, interface_name) ==
    <<Cmd(<<T_ovs_delport>>, <<bridge_name, interface_name>>)>>

Ovs_existing_bridges_cmd == <<Cmd(<<T_ovs_list>>, <<>>)>>

\* the loop over output.split("\n") of OvsNetClient.existing_bridges;
\* fields[1] of a one-field line raises IndexError
\* variant: the node id compared with the sequence field of the name
RECURSIVE Ovs_scan_wrong_field(_, _)
Ovs_scan_wrong_field(lines, id) ==
    IF lines = <<>> THEN "False"
    ELSE LET fields == Split(Head(lines), DOT)
         IN  IF fields[1] # <<"b">> THEN Ovs_scan_wrong_field(Tail(lines), id)
             ELSE IF Len(fields) < 3 THEN "IndexError"
             ELSE IF fields[3] = id THEN "True"
             ELSE Ovs_scan_wrong_field(Tail(lines), id)

RECURSIVE Ovs_scan(_, _)
Ovs_scan(lines, id) ==
    IF lines = <<>> THEN "False"
    ELSE LET fields == Split(Head(lines), DOT)
         IN  IF fields[1] # <<"b">> THEN Ovs_scan(Tail(lines), id)
             ELSE IF Len(fields) < 2 THEN "IndexError"
             ELSE IF fields[2] = id THEN "True"
             ELSE Ovs_scan(Tail(lines), id)

Ovs_existing_bridges(output, id) ==
    IF output # <<>> THEN Ovs_scan(Split(output, NL), id) ELSE "False"

Ovs_disable_mac_learning(name) == <<Cmd(<<T_ovs_aging>>, <<name>>)>>

\* ------------------------------------------------------------ dispatch
\* A call names an operation and its arguments: a1, a2 the first two, opt
\* the remaining ones (broadcast of create_address; local, ttl, key of
\* create_gretap).
NoOpts == [broadcast |-> None, local |-> None, ttl |-> None, key |-> None]
CallOpt(op, a1, a2, opt) == [op |-> op, a1 |-> a1, a2 |-> a2, opt |-> opt]
Call(op, a1, a2) == CallOpt(op, a1, a2, NoOpts)

\* variant: the backend flag read the wrong way round
get_net_client_inverted(use_ovs) ==
    IF use_ovs THEN "LinuxNetClient" ELSE "OvsNetClient"

\* get_net_client(use_ovs, run): the class whose methods serve the session
get_net_client(use_ovs) == IF use_ovs THEN "OvsNetClient" ELSE "LinuxNetClient"

\* method resolution: OvsNetClient overrides six methods and inherits the rest
Method(client, c) ==
    LET ovs == (client = "OvsNetClient") IN
    CASE c.op = "device_up" -> device_up(c.a1)
      [] c.op = "device_down" -> device_down(c.a1)
      [] c.op = "device_flush" -> device_flush(c.a1)
      [] c.op = "set_hostname" -> set_hostname(c.a1)
      [] c.op = "create_route" -> create_route(c.a1, c.a2)
      [] c.op = "device_name" -> device_name(c.a1, c.a2)
      [] c.op = "device_show" -> device_show(c.a1)
      [] c.op = "get_mac" -> get_mac(c.a1)
      [] c.op = "get_ifindex" -> get_ifindex(c.a1)
      [] c.op = "device_ns" -> device_ns(c.a1, c.a2)
      [] c.op = "device_mac" -> device_mac(c.a1, c.a2)
      [] c.op = "delete_device" -> delete_device(c.a1)
      [] c.op = "delete_tc" -> delete_tc(c.a1)
      [] c.op = "checksums_off" -> checksums_off(c.a1)
      [] c.op = "create_address" ->
            create_address(c.a1, c.a2, c.opt.broadcast)
      [] c.op = "delete_address" -> delete_address(c.a1, c.a2)
      [] c.op = "create_veth" -> create_veth(c.a1, c.a2)
      [] c.op = "create_gretap" ->
            create_gretap(c.a1, c.a2, c.opt.local, c.opt.ttl, c.opt.key)
      [] c.op = "create_bridge" ->
            IF ovs THEN Ovs_create_bridge(c.a1) ELSE Linux_create_bridge(c.a1)
      [] c.op = "delete_bridge" ->
            IF ovs THEN Ovs_delete_bridge(c.a1) ELSE Linux_delete_bridge(c.a1)
      [] c.op = "create_interface" ->
            IF ovs THEN Ovs_create_interface(c.a1, c.a2)
            ELSE Linux_create_interface(c.a1, c.a2)
      [] c.op = "delete_interface" ->
            IF ovs THEN Ovs_delete_interface(c.a1, c.a2)
            ELSE Linux_delete_interface(c.a1, c.a2)
      [] c.op = "existing_bridges" ->
            IF ovs THEN Ovs_existing_bridges_cmd ELSE Linux_existing_bridges_cmd
      [] c.op = "disable_mac_learning" ->
            IF ovs THEN Ovs_disable_mac_learning(c.a1)
            ELSE Linux_disable_mac_learning(c.a1)

\* what the method returns once its last command has succeeded with `output`
ReturnValue(client, c, output) ==
    IF c.op = "existing_bridges"
    THEN IF client = "OvsNetClient" THEN Ovs_existing_bridges(output, c.a1)
         ELSE Linux_existing_bridges(output, c.a1)
    ELSE IF c.op \in {"device_show", "get_mac", "get_ifindex"}
    THEN "Output"
    ELSE "None"

\* ------------------------------------------------------------ host
\* The kernel objects the commands act on.  bridges: the bridges of the
\* active backend in listing order; devs: the other devices; up: the
\* devices administratively up; master: <<interface, bridge>> memberships;
\* cfg: <<bridge, setting>> applied; addr6: <<device, IPv6 address>>;
\* addr4: <<device, address>> added by create_address; qdisc: the devices
\* with a root queueing discipline; csum_off: the devices with checksum
\* offload disabled; mac: <<device, address>> set; routes: <<route,
\* device>>; hostname; netns: <<device, namespace>> moved away; peer:
\* <<device, device>> the two ends of a veth pair.
InSeq(x, q) == \E i \in 1..Len(q) : q[i] = x
Remove(q, x) == SelectSeq(q, LAMBDA y : y # x)
HostExists(h, d) == d \in h.devs \/ InSeq(d, h.bridges)

BridgeSettings ==
    {T_br_stp, T_br_fd, T_br_mcast, T_br_ageing,
     T_ovs_stp, T_ovs_maxage, T_ovs_fd, T_ovs_aging}

\* whether the host lets the command succeed.  What a backend does with the
\* add of a bridge whose name it already has is backend-defined: the layer
\* leaves collisions to the callers' check, so the host is not taken to
\* refuse it (run may still report a failure for any command).
Accepts(cmd, h) ==
    LET t == cmd.tpl[1]
        a == cmd.args
    IN  CASE t \in {T_up, T_down} -> HostExists(h, a[1])
          [] t \in {T_br_add, T_ovs_add} -> a[1] \notin h.devs
          [] t \in BridgeSettings -> InSeq(a[1], h.bridges)
          [] t \in {T_br_del, T_ovs_del} -> InSeq(a[1], h.bridges)
          [] t = T_master -> a[1] \in h.devs /\ InSeq(a[2], h.bridges)
          [] t = T_nomaster -> a[1] \in h.devs
          [] t = T_ovs_addport ->
                /\ InSeq(a[1], h.bridges)
                /\ a[2] \in h.devs
                /\ \A m \in h.master : m[1] # a[2]
          [] t = T_ovs_delport -> <<a[2], a[1]>> \in h.master
          [] t \in {T_br_list, T_ovs_list} -> TRUE
          [] t = T_hostname -> TRUE
          [] t = T_route_add ->
                HostExists(h, a[2]) /\ <<a[1], a[2]>> \notin h.routes
          [] t = T_name -> a[1] \in h.devs /\ ~HostExists(h, a[2])
          [] t \in {T_show, T_cat_address, T_cat_ifindex, T_mac, T_csum_off} ->
                HostExists(h, a[1])
          [] t \in {T_netns, T_link_del} -> a[1] \in h.devs
          [] t = T_tc_del -> a[1] \in h.qdisc
          [] t = T_addr_add ->
                HostExists(h, a[2]) /\ <<a[2], a[1]>> \notin h.addr4
          [] t = T_addr_add_bc ->
                HostExists(h, a[3]) /\ <<a[3], a[1]>> \notin h.addr4
          [] t = T_addr_del -> <<a[2], a[1]>> \in h.addr4
          [] t = T_veth_add ->
                ~HostExists(h, a[1]) /\ ~HostExists(h, a[2]) /\ a[1] # a[2]
          [] t = T_gretap -> ~HostExists(h, a[1])

\* the host once device d has left it
Without(h, d) ==
    [h EXCEPT !.devs = @ \ {d}, !.up = @ \ {d},
              !.master = {m \in @ : m[1] # d},
              !.addr6 = {x \in @ : x[1] # d},
              !.addr4 = {x \in @ : x[1] # d},
              !.mac = {x \in @ : x[1] # d},
              !.routes = {x \in @ : x[2] # d},
              !.qdisc = @ \ {d}, !.csum_off = @ \ {d},
              !.peer = {x \in @ : x[1] # d /\ x[2] # d}]

\* the other end of d when d is one end of a veth pair
Peers(h, d) == {x[2] : x \in {y \in h.peer : y[1] = d}}

\* the host once device d is deleted: a veth end takes its peer with it
Deleted(h, d) ==
    IF Peers(h, d) = {} THEN Without(h, d)
    ELSE Without(Without(h, d), CHOOSE x \in Peers(h, d) : TRUE)

\* the host once device d goes by the name n
Renamed(h, d, n) ==
    LET r(x) == IF x = d THEN n ELSE x
    IN  [h EXCEPT !.devs = {r(x) : x \in @}, !.up = {r(x) : x \in @},
                  !.master = {<<r(m[1]), m[2]>> : m \in @},
                  !.addr6 = {<<r(x[1]), x[2]>> : x \in @},
                  !.addr4 = {<<r(x[1]), x[2]>> : x \in @},
                  !.mac = {<<r(x[1]), x[2]>> : x \in @},
                  !.routes = {<<x[1], r(x[2])>> : x \in @},
                  !.qdisc = {r(x) : x \in @},
                  !.csum_off = {r(x) : x \in @},
                  !.peer = {<<r(x[1]), r(x[2])>> : x \in @}]

\* the host after the command succeeded
Effect(cmd, h) ==
    LET t == cmd.tpl[1]
        a == cmd.args
    IN  CASE t = T_up -> [h EXCEPT !.up = @ \cup {a[1]}]
          [] t = T_down -> [h EXCEPT !.up = @ \ {a[1]}]
          [] t \in {T_br_add, T_ovs_add} ->
                [h EXCEPT !.bridges = Append(@, a[1])]
          [] t \in BridgeSettings -> [h EXCEPT !.cfg = @ \cup {<<a[1], t>>}]
          [] t \in {T_br_del, T_ovs_del} ->
                [h EXCEPT !.bridges = Remove(@, a[1]),
                          !.up = @ \ {a[1]},
                          !.cfg = {c \in @ : c[1] # a[1]},
                          !.master = {m \in @ : m[2] # a[1]}]
          [] t = T_master ->
                [h EXCEPT !.master = {m \in @ : m[1] # a[1]} \cup {<<a[1], a[2]>>}]
          [] t = T_nomaster -> [h EXCEPT !.master = {m \in @ : m[1] # a[1]}]
          [] t = T_ovs_addport -> [h EXCEPT !.master = @ \cup {<<a[2], a[1]>>}]
          [] t = T_ovs_delport -> [h EXCEPT !.master = @ \ {<<a[2], a[1]>>}]
          [] t \in {T_br_list, T_ovs_list} -> h
          [] t = T_hostname -> [h EXCEPT !.hostname = a[1]]
          [] t = T_route_add -> [h EXCEPT !.routes = @ \cup {<<a[1], a[2]>>}]
          [] t = T_name -> Renamed(h, a[1], a[2])
          [] t \in {T_show, T_cat_address, T_cat_ifindex} -> h
          [] t = T_netns ->
                [Without(h, a[1]) EXCEPT !.netns = @ \cup {<<a[1], a[2]>>}]
          [] t = T_mac ->
                [h EXCEPT !.mac = {x \in @ : x[1] # a[1]} \cup {<<a[1], a[2]>>}]
          [] t = T_link_del -> Deleted(h, a[1])
          [] t = T_tc_del -> [h EXCEPT !.qdisc = @ \ {a[1]}]
          [] t = T_csum_off -> [h EXCEPT !.csum_off = @ \cup {a[1]}]
          [] t = T_addr_add -> [h EXCEPT !.addr4 = @ \cup {<<a[2], a[1]>>}]
          [] t = T_addr_add_bc -> [h EXCEPT !.addr4 = @ \cup {<<a[3], a[1]>>}]
          [] t = T_addr_del -> [h EXCEPT !.addr4 = @ \ {<<a[2], a[1]>>}]
          [] t = T_veth_add ->
                [h EXCEPT !.devs = @ \cup {a[1], a[2]},
                          !.peer = @ \cup {<<a[1], a[2]>>, <<a[2], a[1]>>}]
          [] t = T_gretap -> [h EXCEPT !.devs = @ \cup {a[1]}]

\* what the command prints on success; a plain listing may end in a newline
Outputs(cmd, h) ==
    LET t == cmd.tpl[1]
    IN  CASE t = T_br_list -> {JsonDump(h.bridges)}
          [] t = T_ovs_list ->
                {Join(h.bridges, NL), Join(h.bridges, NL) \o <<NL>>}
          [] OTHER -> {<<>>}

\* sh -c "[ -e /sys/class/net/D ] && ip -6 address flush dev D || true":
\* the flush runs only when the test holds, and the line exits 0 whatever
\* the test or the flush did.  acted: the flush ran and succeeded.
ShellRun(cmd, h) ==
    LET a == cmd.args
        flushed == [h EXCEPT !.addr6 = {x \in @ : x[1] # a[2]}]
    IN  IF ~HostExists(h, a[1])
        THEN {[ok |-> TRUE, acted |-> FALSE, out |-> <<>>, host |-> h]}
        ELSE {[ok |-> TRUE, acted |-> TRUE, out |-> <<>>, host |-> flushed],
              [ok |-> TRUE, acted |-> FALSE, out |-> <<>>, host |-> h]}

\* run(cmd, shell=False): the outcomes the executor can report.  ok: exit
\* status 0 (otherwise run raises); a command can always exit non-zero.
run(cmd, h) ==
    IF cmd.shell THEN ShellRun(cmd, h)
    ELSE {[ok |-> FALSE, acted |-> FALSE, out |-> <<>>, host |-> h]}
         \cup (IF Accepts(cmd, h)
               THEN {[ok |-> TRUE, acted |-> TRUE, out |-> o,
                      host |-> Effect(cmd, h)] : o \in Outputs(cmd, h)}
               ELSE {})

\* ------------------------------------------------------------ state
VARIABLES
    use_ovs,    \* the backend flag given to get_net_client
    host,       \* kernel objects
    sess,       \* per session: the caller's position and the call it is in
    last,       \* the command most recently handed to run, and what it did
    lock        \* <<node id, session>>: the callers' creation locks held

vars == <<use_ovs, host, sess, last, lock>>

\* the provisioning sessions on the host
Sessions == {1, 2}

NoCall == Call("none", <<>>, <<>>)
NoResult == [status |-> "none", value |-> "None"]
NoEvent(h) ==
    [s |-> 0, call |-> NoCall, cmd |-> Cmd(<<"">>, <<>>), ok |-> TRUE,
     acted |-> TRUE, pre |-> h, post |-> h]

\* sess[s]: pc, the caller's position (idle, running inside a call, failed
\* once a call raised); plan / script, the calls it set out to make and
\* those left; call, n, ix, the method it is in, the number of that call
\* and the command it is at; issued, the commands this call handed to run;
\* log, every command of the session with its call number and exit status;
\* result, how the last call ended; host0, the host when the call began.
\* variant: a failing command swallowed, as under try/except around run
AfterRun_swallow(ok, ix, n) == IF ix < n THEN "next" ELSE "return"

\* control after run(...) returned or raised inside a method body: a raise
\* leaves the method at once, otherwise the next statement runs
AfterRun(ok, ix, n) ==
    IF ~ok THEN "raise" ELSE IF ix < n THEN "next" ELSE "return"

Idle(script, h) ==
    [pc |-> "idle", plan |-> script, script |-> script, call |-> NoCall,
     n |-> 0, ix |-> 0, issued |-> <<>>, log |-> <<>>, result |-> NoResult,
     host0 |-> h]

\* ------------------------------------------------------------ callers
\* the calls a sequential caller may make
Calls ==
    {Call("create_bridge", Nb50, <<>>),
     Call("delete_bridge", Nb50, <<>>),
     Call("create_interface", Nb50, Veth0),
     Call("delete_interface", Nb50, Veth0),
     Call("disable_mac_learning", Nb50, <<>>),
     Call("existing_bridges", Id5, <<>>),
     Call("device_up", Veth0, <<>>),
     Call("device_down", Veth0, <<>>),
     Call("device_flush", Veth0, <<>>),
     Call("device_flush", Nr0, <<>>)}

\* steps of a caller that are not calls into the client
CallerOps == {"lock", "unlock", "unless_exists"}

SeqsUpTo(S, n) == UNION {[1..k -> S] : k \in 0..n}

\* the scenario of the testable properties: one bridge built and torn down
Scenario ==
    <<Call("create_bridge", Nb50, <<>>),
      Call("create_interface", Nb50, Veth0),
      Call("disable_mac_learning", Nb50, <<>>),
      Call("delete_interface", Nb50, Veth0),
      Call("delete_bridge", Nb50, <<>>)>>

\* argument values of the single-command operations
Gre0 == <<"g", "0">>
Peer0 == <<"p", "0">>
Peer1 == <<"p", "1">>
Eth0 == <<"e", "0">>
AddrA == <<"1", "0", ".", "1">>
Bcast == <<"1", "0", ".", "9">>
Remote == <<"1", "0", ".", "2">>
Local == <<"1", "0", ".", "3">>
Mac1 == <<"0", "a">>
Route1 == <<"1", "0", ".", "0">>
Ns1 == <<"7">>
Host1 == <<"n", "5">>
Ttl64 == 64
Key7 == 7

\* create_gretap with each modifier absent, zero or set
GretapCalls ==
    {CallOpt("create_gretap", Gre0, Remote,
             [broadcast |-> None, local |-> l, ttl |-> t, key |-> k]) :
        l \in {None, SomeStr(Local)},
        t \in {None, SomeInt(0), SomeInt(Ttl64)},
        k \in {None, SomeInt(0), SomeInt(Key7)}}

AddrPlain == Call("create_address", Veth0, AddrA)
AddrBcast ==
    CallOpt("create_address", Veth0, AddrA,
            [broadcast |-> SomeStr(Bcast), local |-> None, ttl |-> None,
             key |-> None])

\* one call of each operation both backends share
OtherCalls ==
    {Call("set_hostname", Host1, <<>>),
     Call("create_route", Route1, Veth0),
     Call("device_name", Veth1, Eth0),
     Call("device_show", Veth0, <<>>),
     Call("get_mac", Veth0, <<>>),
     Call("get_ifindex", Veth0, <<>>),
     Call("device_ns", Veth1, Ns1),
     Call("device_mac", Veth0, Mac1),
     Call("delete_device", Veth1, <<>>),
     Call("delete_tc", Veth0, <<>>),
     Call("delete_tc", Veth1, <<>>),
     Call("checksums_off", Veth0, <<>>),
     AddrPlain, AddrBcast,
     Call("delete_address", Veth0, AddrA),
     Call("create_veth", Peer0, Peer1)}
        \cup GretapCalls

\* a traffic-control rule removed twice in a row
TcTwice == <<Call("delete_tc", Veth0, <<>>), Call("delete_tc", Veth0, <<>>)>>

\* an address added without, then with, a broadcast argument
AddrTwice == <<AddrPlain, AddrBcast>>

\* an address added and removed again
AddrAddDel == <<AddrPlain, Call("delete_address", Veth0, AddrA)>>

\* a veth pair created and one of its ends deleted
VethAddDel == <<Call("create_veth", Peer0, Peer1), Call("delete_device", Peer0, <<>>)>>

\* a bridge created and deleted at once, then the collision query
RoundTrip ==
    <<Call("create_bridge", Nb50, <<>>),
      Call("delete_bridge", Nb50, <<>>),
      Call("existing_bridges", Id5, <<>>)>>

Scripts ==
    SeqsUpTo(Calls, MaxCalls) \cup {<<c>> : c \in OtherCalls}
        \cup {Scenario, TcTwice, AddrTwice, AddrAddDel, VethAddDel}

Distinct(q) == \A i, j \in 1..Len(q) : i # j => q[i] # q[j]
Listings == {q \in SeqsUpTo(BridgeNames, MaxListing) : Distinct(q)}

Addr1 == "fe80::1"
Addr2 == "fe80::2"

HostWith(listing, upset) ==
    [bridges |-> listing, devs |-> Ifaces, up |-> upset, master |-> {},
     cfg |-> {}, addr6 |-> {<<Veth0, Addr1>>, <<Veth0, Addr2>>, <<Veth1, Addr1>>},
     addr4 |-> {}, qdisc |-> {Veth0}, csum_off |-> {}, mac |-> {},
     routes |-> {}, hostname |-> <<>>, netns |-> {},
     peer |-> {}]

\* hosts a provisioning run starts on: clean, or with one leftover bridge
OpHosts ==
    {HostWith(<<>>, {}), HostWith(<<>>, {Veth0}), HostWith(<<Nb50>>, {Nb50})}

\* hosts with any listing of leftover bridges, for the collision query
QueryHosts == {HostWith(l, {}) : l \in Listings}

\* hosts with no bridge of node 5: clean, or with a leftover of another node
\* or of a name that is no identity token
RoundTripHosts == {HostWith(l, {}) : l \in {<<>>, <<Nb70>>, <<Nb5>>, <<Nb>>, <<Nr0>>}}

Init ==
    /\ use_ovs \in BOOLEAN
    /\ lock = {}
    /\ \/ /\ host \in OpHosts
          /\ \E sc \in Scripts :
                sess = [s \in Sessions |->
                          Idle(IF s = 1 THEN sc ELSE <<>>, host)]
       \/ /\ host \in QueryHosts
          /\ \E id \in Ids :
                sess = [s \in Sessions |->
                          Idle(IF s = 1
                               THEN <<Call("existing_bridges", id, <<>>)>>
                               ELSE <<>>, host)]
       \/ /\ host \in RoundTripHosts
          /\ sess = [s \in Sessions |->
                      Idle(IF s = 1 THEN RoundTrip ELSE <<>>, host)]
    /\ last = NoEvent(host)

\* the caller makes its next call
Invoke(s) ==
    /\ sess[s].pc = "idle"
    /\ sess[s].script # <<>>
    /\ Head(sess[s].script).op \notin CallerOps
    /\ sess' = [sess EXCEPT ![s] =
                  [@ EXCEPT !.pc = "running", !.script = Tail(@),
                            !.call = Head(sess[s].script), !.n = @ + 1,
                            !.ix = 1,
                            !.issued = <<>>, !.result = NoResult,
                            !.host0 = host]]
    /\ UNCHANGED <<use_ovs, host, last, lock>>

\* the method hands its next command to run and goes on, returns or raises
Exec(s) ==
    /\ sess[s].pc = "running"
    /\ LET st == sess[s]
           client == get_net_client(use_ovs)
           body == Method(client, st.call)
           cmd == body[st.ix]
       IN  \E o \in run(cmd, host) :
             LET ctl == AfterRun(o.ok, st.ix, Len(body))
                 rv == IF ctl = "return" /\ o.ok
                       THEN ReturnValue(client, st.call, o.out)
                       ELSE "None"
             IN  /\ host' = o.host
                 /\ last' = [s |-> s, call |-> st.call, cmd |-> cmd,
                             ok |-> o.ok, acted |-> o.acted, pre |-> host,
                             post |-> o.host]
                 /\ sess' = [sess EXCEPT ![s] =
                        [@ EXCEPT
                           !.issued = Append(@, cmd),
                           !.log = Append(@, [n |-> st.n, cmd |-> cmd, ok |-> o.ok]),
                           !.ix = IF ctl = "next" THEN @ + 1 ELSE @,
                           !.pc = IF ctl = "next" THEN "running"
                                  ELSE IF ctl = "raise" \/ rv = "IndexError"
                                       THEN "failed" ELSE "idle",
                           !.result =
                              IF ctl = "next" THEN NoResult
                              ELSE IF ctl = "raise"
                                   THEN [status |-> "CoreCommandError",
                                         value |-> "None"]
                              ELSE IF rv = "IndexError"
                                   THEN [status |-> "IndexError",
                                         value |-> "None"]
                              ELSE [status |-> "ok", value |-> rv]]]
    /\ UNCHANGED <<use_ovs, lock>>

Next == Invoke(1) \/ Exec(1)

Spec == Init /\ [][Next]_vars

\* ------------------------------------------------------------ racing sessions
\* A provisioning session asks existing_bridges(id) and creates its bridge
\* only on the answer False; a serializing caller holds the lock of the node
\* id around the two.
Provision(id, name, serialize) ==
    (IF serialize THEN <<Call("lock", id, <<>>)>> ELSE <<>>)
        \o <<Call("existing_bridges", id, <<>>),
             Call("unless_exists", <<>>, <<>>),
             Call("create_bridge", name, <<>>)>>
        \o (IF serialize THEN <<Call("unlock", id, <<>>)>> ELSE <<>>)

Teardown(name) == <<Call("delete_bridge", name, <<>>)>>

\* what a session sets out to do: provision a bridge of node 5, possibly
\* tearing one down before or after
RacePlans(serialize) ==
    {Provision(Id5, n, serialize) : n \in {Nb50, Nb51}}
        \cup {Provision(Id5, Nb50, serialize) \o Teardown(Nb50)}
        \cup {Teardown(Nb50) \o Provision(Id5, n, serialize) : n \in {Nb50, Nb51}}

RaceHosts == {HostWith(<<>>, {}), HostWith(<<Nb51>>, {Nb51}), HostWith(<<Nb70>>, {})}

InitRace ==
    /\ use_ovs \in BOOLEAN
    /\ lock = {}
    /\ host \in RaceHosts
    /\ \E serialize \in BOOLEAN :
          sess \in [Sessions -> {Idle(p, host) : p \in RacePlans(serialize)}]
    /\ last = NoEvent(host)

Holds(s) == \E l \in lock : l[2] = s

\* the caller takes the lock of the node id it is about to check
Acquire(s) ==
    /\ sess[s].pc = "idle"
    /\ sess[s].script # <<>>
    /\ Head(sess[s].script).op = "lock"
    /\ \A l \in lock : l[1] # Head(sess[s].script).a1
    /\ lock' = lock \cup {<<Head(sess[s].script).a1, s>>}
    /\ sess' = [sess EXCEPT ![s].script = Tail(@)]
    /\ UNCHANGED <<use_ovs, host, last>>

\* the caller leaves the locked section, normally or by an exception
Release(s) ==
    /\ Holds(s)
    /\ \/ sess[s].pc = "failed" /\ UNCHANGED sess
       \/ /\ sess[s].pc = "idle"
          /\ sess[s].script # <<>>
          /\ Head(sess[s].script).op = "unlock"
          /\ sess' = [sess EXCEPT ![s].script = Tail(@)]
    /\ lock' = {l \in lock : l[2] # s}
    /\ UNCHANGED <<use_ovs, host, last>>

\* the caller creates only when existing_bridges answered False
Guard(s) ==
    /\ sess[s].pc = "idle"
    /\ sess[s].script # <<>>
    /\ Head(sess[s].script).op = "unless_exists"
    /\ sess' = [sess EXCEPT ![s].script =
                  IF sess[s].result.value = "False" THEN Tail(@)
                  ELSE Tail(Tail(@))]
    /\ UNCHANGED <<use_ovs, host, last, lock>>

NextRace ==
    \E s \in Sessions :
        Invoke(s) \/ Exec(s) \/ Acquire(s) \/ Release(s) \/ Guard(s)

SpecRace == InitRace /\ [][NextRace]_vars
\* ------------------------------------------------------------ properties
IsPrefix(p, q) == Len(p) <= Len(q) /\ p = SubSeq(q, 1, Len(p))
Returned(st) == st.pc = "idle" /\ st.result.status = "ok"
OneArg(tpls, a) == [i \in 1..Len(tpls) |-> Cmd(<<tpls[i]>>, <<a>>)]
ScenarioDone(st) == st.plan = Scenario /\ st.script = <<>> /\ Returned(st)
By(op) == last.s # 0 /\ last.call.op = op

\* a name of the identity-token shape b.<id>.<n> for node id
IsToken(name, id) ==
    LET f == Split(name, DOT)
    IN  Len(f) = 3 /\ f[1] = <<"b">> /\ f[2] = id

HasToken(h, id) == \E i \in 1..Len(h.bridges) : IsToken(h.bridges[i], id)

\* C1: for both backends, whenever existing_bridges(id) returns, it returns
\* true iff some listed bridge name has exactly three dot-separated fields,
\* the first being "b" and the second id.
C1_ExistingBridgesExact ==
    \A s \in Sessions :
        (sess[s].call.op = "existing_bridges" /\ Returned(sess[s])) =>
            (sess[s].result.value = "True" <=> HasToken(host, sess[s].call.a1))

\* the open-virtual-switch variant answering true for the two-field name b.5
C1_BugWitness ==
    /\ use_ovs
    /\ host.bridges = <<Nb5>>
    /\ sess[1].call = Call("existing_bridges", Id5, <<>>)
    /\ Returned(sess[1]) /\ sess[1].result.value = "True"

\* C1 restricted to the kernel-bridge backend, where the code checks the
\* number of fields.
C1_LinuxExact == ~use_ovs => C1_ExistingBridgesExact

\* C2: kernel-bridge backend: a create_bridge(name) call issues add, stp_state 0,
\* forward_delay 0, mcast_snooping 0, link-up in that order (what it has
\* issued is always a prefix of that list, and the whole list once it has
\* returned); in the scenario the bridge is up when the attach is issued.
C2_LinuxCreateBridgeOrder ==
    ~use_ovs =>
        /\ \A s \in Sessions :
              LET st == sess[s]
                  want == OneArg(<<T_br_add, T_br_stp, T_br_fd, T_br_mcast, T_up>>,
                                 st.call.a1)
              IN  st.call.op = "create_bridge" =>
                    /\ IsPrefix(st.issued, want)
                    /\ Returned(st) => st.issued = want
        /\ (By("create_interface") /\ sess[last.s].plan = Scenario
                /\ last.cmd.tpl[1] = T_master)
              => last.cmd.args[2] \in last.pre.up

C2_Witness ==
    /\ ~use_ovs
    /\ sess[1].plan = Scenario
    /\ last.cmd = Cmd(<<T_master>>, <<Veth0, Nb50>>)
    /\ last.ok
    /\ Len(sess[1].log) = 6

\* C3: open-virtual-switch backend: a create_bridge(name) call issues add-br,
\* stp_enable=false, the stp-max-age and stp-forward-delay config keys and
\* the link-up in that order; the completed scenario shows add-br,
\* stp_enable=false, add-port, mac-aging-time=0, del-port, del-br in that
\* relative order.
C3_OvsCreateBridgeOrder ==
    use_ovs =>
        \A s \in Sessions :
            LET st == sess[s]
                want == OneArg(<<T_ovs_add, T_ovs_stp, T_ovs_maxage, T_ovs_fd, T_up>>,
                               st.call.a1)
                marks == {T_ovs_add, T_ovs_stp, T_ovs_addport, T_ovs_aging,
                          T_ovs_delport, T_ovs_del}
            IN  /\ st.call.op = "create_bridge" =>
                      /\ IsPrefix(st.issued, want)
                      /\ Returned(st) => st.issued = want
                /\ ScenarioDone(st) =>
                      SelectSeq([i \in 1..Len(st.log) |-> st.log[i].cmd.tpl[1]],
                                LAMBDA t : t \in marks)
                        = <<T_ovs_add, T_ovs_stp, T_ovs_addport, T_ovs_aging,
                            T_ovs_delport, T_ovs_del>>

C3_Witness == use_ovs /\ ScenarioDone(sess[1]) /\ Len(sess[1].log) = 11

IsDelete(cmd) == cmd.tpl[1] \in {T_br_del, T_ovs_del}

\* C4: both backends: delete_bridge(name) issues link-down, then the delete;
\* whenever a delete command is issued, the command before it is the
\* successful link-down of the same call, and the bridge is down.
C4_DownBeforeDelete ==
    /\ \A s \in Sessions :
          LET st == sess[s]
              del == IF use_ovs THEN T_ovs_del ELSE T_br_del
          IN  st.call.op = "delete_bridge" =>
                IsPrefix(st.issued, OneArg(<<T_down, del>>, st.call.a1))
    /\ IsDelete(last.cmd) =>
          LET log == sess[last.s].log
              n == Len(log)
          IN  /\ last.cmd.args[1] \notin last.pre.up
              /\ n >= 2
              /\ log[n].cmd = last.cmd
              /\ log[n - 1] = [n |-> log[n].n,
                               cmd |-> Cmd(<<T_down>>, last.cmd.args),
                               ok |-> TRUE]

C4_Witness ==
    /\ IsDelete(last.cmd) /\ last.ok
    /\ last.cmd.args[1] \in sess[last.s].host0.up

Attach(ovs, bridge, iface) ==
    IF ovs THEN Cmd(<<T_ovs_addport>>, <<bridge, iface>>)
    ELSE Cmd(<<T_master>>, <<iface, bridge>>)

\* C5: both backends: create_interface(bridge, interface) issues the attach and
\* then the link-up of the interface, leaving it a member and up;
\* delete_interface issues the detach alone, no link-down, and changes
\* nothing on the host but that interface's membership.
C5_AttachUpDetachOnly ==
    /\ \A s \in Sessions :
          LET st == sess[s]
          IN  /\ (st.call.op = "create_interface" /\ Returned(st)) =>
                    /\ st.issued = <<Attach(use_ovs, st.call.a1, st.call.a2),
                                     Cmd(<<T_up>>, <<st.call.a2>>)>>
                    /\ <<st.call.a2, st.call.a1>> \in host.master
                    /\ st.call.a2 \in host.up
              /\ (st.call.op = "delete_interface" /\ Returned(st)) =>
                    Len(st.issued) = 1
    /\ By("delete_interface") =>
          /\ last.cmd.tpl[1] \in {T_nomaster, T_ovs_delport}
          /\ last.post =
                [last.pre EXCEPT !.master =
                    IF last.ok THEN {m \in @ : m[1] # last.call.a2} ELSE @]

C5_Witness ==
    /\ By("delete_interface") /\ last.ok
    /\ <<Veth0, Nb50>> \in last.pre.master
    /\ Veth0 \in last.post.up
    /\ last.post.master = {}

MultiOps == {"create_bridge", "delete_bridge", "create_interface"}

RECURSIVE ApplyAll(_, _)
ApplyAll(cmds, h) ==
    IF cmds = <<>> THEN h ELSE ApplyAll(Tail(cmds), Effect(Head(cmds), h))

\* C6: both backends: when the k-th command of create_bridge, delete_bridge or
\* create_interface fails, the call raises to its caller, the host holds the
\* effects of commands 1..k-1, and the failed command is the last command
\* issued: nothing after it, no second attempt, no compensating command.
C6_FailStopNoRollback ==
    \A s \in Sessions :
        LET st == sess[s]
            k == Len(st.issued)
            n == Len(st.log)
            body == Method(get_net_client(use_ovs), st.call)
        IN  /\ \A j \in 1..n :
                  ~st.log[j].ok =>
                      /\ j = n
                      /\ st.pc = "failed"
                      /\ st.result.status = "CoreCommandError"
            /\ (st.call.op \in MultiOps /\ st.pc = "failed") =>
                  /\ k >= 1 /\ k <= Len(body)
                  /\ st.issued = SubSeq(body, 1, k)
                  /\ host = ApplyAll(SubSeq(body, 1, k - 1), st.host0)
                  /\ \A i \in 1..k :
                        st.log[n - k + i] =
                            [n |-> st.n, cmd |-> body[i], ok |-> i < k]

C6_Witness ==
    /\ sess[1].call = Call("create_bridge", Nb50, <<>>)
    /\ sess[1].pc = "failed"
    /\ Len(sess[1].issued) = 3
    /\ host.bridges = <<Nb50>>
    /\ Nb50 \notin host.up
    /\ host.cfg # {}

\* C7: every command that exits non-zero makes its operation fail, and the only
\* command reported as succeeded without its action having succeeded is the
\* device_flush line on a device that does not exist.
C7_OnlyAbsentFlushSwallowed ==
    last.s # 0 =>
        /\ ~last.ok => sess[last.s].result.status = "CoreCommandError"
        /\ (last.ok /\ ~last.acted) =>
              /\ last.call.op = "device_flush"
              /\ ~HostExists(last.pre, last.cmd.args[1])

\* device_flush reporting success although the flush of an existing device failed
C7_BugWitness ==
    /\ last.call = Call("device_flush", Veth0, <<>>)
    /\ last.ok /\ ~last.acted
    /\ sess[last.s].result.status = "ok"

\* C8: device_flush(device) succeeds; on a missing device it leaves the host
\* unchanged, on an existing one it removes all IPv6 addresses of that device
\* and nothing else; no other operation asks for shell interpretation.
C8_FlushEffect ==
    last.s # 0 =>
        /\ last.cmd.shell <=> last.call.op = "device_flush"
        /\ last.call.op = "device_flush" =>
              /\ last.ok
              /\ last.post =
                    IF HostExists(last.pre, last.call.a1)
                    THEN [last.pre EXCEPT !.addr6 = {x \in @ : x[1] # last.call.a1}]
                    ELSE last.pre

\* device_flush returned on an existing device that kept its addresses
C8_BugWitness ==
    /\ last.call = Call("device_flush", Veth0, <<>>)
    /\ Returned(sess[last.s])
    /\ <<Veth0, Addr1>> \in last.post.addr6

\* the parts of C8 that hold: a missing device is tolerated, a flush that ran
\* removes that device's addresses only, shell is asked for by device_flush only
C8_FlushWhenActed ==
    last.s # 0 =>
        /\ last.cmd.shell <=> last.call.op = "device_flush"
        /\ last.call.op = "device_flush" =>
              /\ last.ok
              /\ last.post =
                    IF last.acted
                    THEN [last.pre EXCEPT !.addr6 = {x \in @ : x[1] # last.call.a1}]
                    ELSE last.pre
              /\ ~HostExists(last.pre, last.call.a1) => ~last.acted

Serialized == \A s \in Sessions : \E i \in 1..Len(sess[s].plan) : sess[s].plan[i].op = "lock"
TokenId(name) == Split(name, DOT)[2]
IsAdd(cmd) == cmd.tpl[1] \in {T_br_add, T_ovs_add}

\* C9: when the sessions serialize check-and-create for the node id, no
\* create_bridge of a token b.<id>.<n> is entered, and no bridge-add command
\* of it issued, while the host holds a bridge with a token of that id.
C9_SerializedNoCollision ==
    Serialized =>
        /\ \A s \in Sessions :
              LET st == sess[s]
              IN  (st.pc = "running" /\ st.call.op = "create_bridge" /\ st.ix = 1)
                      => ~HasToken(host, TokenId(st.call.a1))
        /\ IsAdd(last.cmd) => ~HasToken(last.pre, TokenId(last.cmd.args[1]))

\* without the lock: both sessions saw False and both issued the add of b.5.0
C9_RaceWitness ==
    /\ ~Serialized
    /\ \A s \in Sessions :
          /\ sess[s].call = Call("create_bridge", Nb50, <<>>)
          /\ Len(sess[s].issued) >= 1
          /\ sess[s].plan = Provision(Id5, Nb50, FALSE)
    /\ HasToken(last.pre, Id5) /\ IsAdd(last.cmd)

Lifecycle(b, i) ==
    <<Call("create_bridge", b, <<>>),
      Call("create_interface", b, i),
      Call("delete_interface", b, i),
      Call("delete_bridge", b, <<>>)>>

\* a caller stops after attaching its interface or goes on to tear down
DisjointPlans(b, i) ==
    {SubSeq(Lifecycle(b, i), 1, k) : k \in {Len(Lifecycle(b, i)) \div 2,
                                            Len(Lifecycle(b, i))}}

CleanHost == HostWith(<<>>, {})

InitDisjoint ==
    /\ use_ovs \in BOOLEAN
    /\ lock = {}
    /\ host = CleanHost
    /\ \E p1 \in DisjointPlans(Nb50, Veth0), p2 \in DisjointPlans(Nb70, Veth1) :
          sess = [s \in Sessions |-> Idle(IF s = 1 THEN p1 ELSE p2, host)]
    /\ last = NoEvent(host)

NextDisjoint == \E s \in Sessions : Invoke(s) \/ Exec(s)

SpecDisjoint == InitDisjoint /\ [][NextDisjoint]_vars

\* the commands of session s that took effect, in order
Done(s) ==
    LET ok == SelectSeq(sess[s].log, LAMBDA e : e.ok)
    IN  [i \in 1..Len(ok) |-> ok[i].cmd]

\* C11: two callers running create_bridge, create_interface,
\* delete_interface and delete_bridge on bridge and interface names of their
\* own never get in each other's way: whatever the interleaving, the host
\* refuses no command of either caller, and the host is always the one that
\* results from running one caller's commands entirely before the other's.
C11_DisjointInterleave ==
    /\ \A s \in Sessions :
          sess[s].pc = "running" =>
              Accepts(Method(get_net_client(use_ovs), sess[s].call)[sess[s].ix],
                      host)
    /\ host \in {ApplyAll(Done(1) \o Done(2), CleanHost),
                 ApplyAll(Done(2) \o Done(1), CleanHost)}

\* both callers ran their whole lifecycle, their commands interleaved
C11_Witness ==
    /\ \A s \in Sessions :
          /\ Len(sess[s].plan) = Len(Lifecycle(Nb50, Veth0))
          /\ sess[s].script = <<>>
          /\ Returned(sess[s])
    /\ last.s = 1
    /\ sess[2].log[1].cmd.args = <<Nb70>>
    /\ host.bridges = <<>>
    /\ host.up = Ifaces

\* the session ran the whole round trip and its query's listing came back
RoundTripDone(st) ==
    /\ st.plan = RoundTrip
    /\ st.n = Len(RoundTrip)
    /\ st.pc # "running"
    /\ st.log[Len(st.log)].ok

\* C12: in both backends, on a host with no identity token of the node id,
\* create_bridge('b.<id>.<n>') followed at once by delete_bridge of the same
\* name, both succeeding, is followed by an existing_bridges(id) that
\* returns False.
C12_RoundTripNoResidue ==
    \A s \in Sessions :
        RoundTripDone(sess[s]) =>
            sess[s].result = [status |-> "ok", value |-> "False"]

\* under Open vSwitch, with a leftover bridge named b.5 (no identity token),
\* the round trip succeeded, the leftover is all the host lists, and the
\* query answered True
C12_BugWitness ==
    /\ use_ovs
    /\ RoundTripDone(sess[1])
    /\ ~HasToken(host, Id5)
    /\ host.bridges = <<Nb5>>
    /\ sess[1].result = [status |-> "ok", value |-> "True"]

\* what holds of the round trip: the host is left with exactly the bridges
\* it had, and the query answers False under the kernel backend, and under
\* Open vSwitch when no listed name begins with the fields b and <id> or is
\* the bare name b
C12_RoundTripRestores ==
    \A s \in Sessions :
        RoundTripDone(sess[s]) =>
            /\ ~HasToken(host, Id5)
            /\ host.bridges = sess[s].host0.bridges
            /\ Len(host.bridges) <= 1
            /\ (~use_ovs \/ host.bridges \in {<<>>, <<Nb70>>, <<Nr0>>}) =>
                  sess[s].result = [status |-> "ok", value |-> "False"]

\* C13: create_bridge never consults existing_bridges: in both backends it
\* issues no listing command and its first command is the add of the name it
\* was given, whether or not a bridge of that name exists.  When one exists,
\* the call ends as the executor reports for the add (its failure raised to
\* the caller, nothing issued after it), and the existing bridge stays on
\* the host as it was.
C13_CreateIgnoresExisting ==
    \A s \in Sessions :
        LET st == sess[s]
            existed == InSeq(st.call.a1, st.host0.bridges)
        IN  (st.call.op = "create_bridge" /\ st.issued # <<>>) =>
                /\ \A i \in 1..Len(st.issued) :
                      st.issued[i].tpl[1] \notin {T_br_list, T_ovs_list}
                /\ IsAdd(st.issued[1])
                /\ st.issued[1].args = <<st.call.a1>>
                /\ existed => InSeq(st.call.a1, host.bridges)
                /\ (existed /\ ~st.log[Len(st.log) - Len(st.issued) + 1].ok) =>
                      /\ st.pc = "failed"
                      /\ st.result.status = "CoreCommandError"
                      /\ Len(st.issued) = 1
                      /\ host = st.host0

\* create_bridge('b.5.0') on a host that has b.5.0: the add was issued and
\* refused, the call raised and the bridge is as it was
C13_Witness ==
    /\ sess[1].call = Call("create_bridge", Nb50, <<>>)
    /\ InSeq(Nb50, sess[1].host0.bridges)
    /\ IsAdd(last.cmd)
    /\ ~last.ok
    /\ sess[1].pc = "failed"
    /\ host = HostWith(<<Nb50>>, {Nb50})

\* C14: delete_tc(device) on a device that has no root queueing discipline
\* completes as success, so delete_tc called twice in a row succeeds both
\* times and leaves the host as one call does.
C14_DeleteTcIdempotent ==
    \A s \in Sessions :
        LET st == sess[s]
        IN  (st.call.op = "delete_tc" /\ st.issued # <<>>
             /\ HostExists(st.host0, st.call.a1)
             /\ st.call.a1 \notin st.host0.qdisc) =>
                /\ st.pc = "idle"
                /\ st.result.status = "ok"
                /\ host = st.host0

\* the second delete_tc('v0') in a row: the first removed the rule, the
\* second found none, its command exited non-zero and the call raised
C14_BugWitness ==
    /\ sess[1].plan = TcTwice
    /\ sess[1].n = Len(TcTwice)
    /\ Len(sess[1].log) = Len(TcTwice)
    /\ sess[1].log[1].ok
    /\ Veth0 \notin sess[1].host0.qdisc
    /\ ~Accepts(last.cmd, last.pre)
    /\ sess[1].pc = "failed"
    /\ sess[1].result.status = "CoreCommandError"

\* what holds of delete_tc: one tc command naming the device; when it
\* exits 0 the device's root discipline is gone and nothing else changed;
\* when it exits non-zero, as it does on a device without one, the call
\* raises and the host is unchanged
C14_DeleteTcOnce ==
    \A s \in Sessions :
        LET st == sess[s]
        IN  (st.call.op = "delete_tc" /\ st.issued # <<>>) =>
                /\ st.issued = <<Cmd(<<T_tc_del>>, <<st.call.a1>>)>>
                /\ st.log[Len(st.log)].ok =>
                      /\ Returned(st)
                      /\ st.call.a1 \in st.host0.qdisc
                      /\ host = [st.host0 EXCEPT !.qdisc = @ \ {st.call.a1}]
                /\ ~st.log[Len(st.log)].ok =>
                      /\ st.pc = "failed"
                      /\ host = st.host0

\* C15: create_gretap(device, address, local, ttl, key) issues one command
\* that adds the gretap device with the remote address and then, for each of
\* the eight ways local, ttl and key can be given or None, exactly the
\* modifiers given, each once and in the order local, ttl, key, with the
\* values given (a ttl or key of 0 counts as given); with all three None
\* nothing follows the remote address.
C15_GretapModifiers ==
    \A s \in Sessions :
        LET st == sess[s]
            o == st.call.opt
            text(v) == IF v.n = 0 THEN <<"0">>
                       ELSE IF v.n = Ttl64 THEN <<"6", "4">> ELSE <<"7">>
            given == <<[has |-> o.local.some, piece |-> T_gre_local, val |-> o.local.s],
                       [has |-> o.ttl.some, piece |-> T_gre_ttl, val |-> text(o.ttl)],
                       [has |-> o.key.some, piece |-> T_gre_key, val |-> text(o.key)]>>
            want == SelectSeq(given, LAMBDA g : g.has)
        IN  (st.call.op = "create_gretap" /\ st.issued # <<>>) =>
                /\ Len(st.issued) = 1
                /\ ~st.issued[1].shell
                /\ st.issued[1].tpl =
                      <<T_gretap>> \o [i \in 1..Len(want) |-> want[i].piece]
                /\ st.issued[1].args =
                      <<st.call.a1, st.call.a2>> \o [i \in 1..Len(want) |-> want[i].val]

\* create_gretap('g0', remote, None, 0, 7) ran: ttl 0 and key 7 follow the
\* remote address, no local
C15_Witness ==
    /\ sess[1].call.op = "create_gretap"
    /\ sess[1].call.opt.local = None
    /\ sess[1].call.opt.ttl = SomeInt(0)
    /\ Returned(sess[1])
    /\ last.cmd.tpl = <<T_gretap, T_gre_ttl, T_gre_key>>
    /\ last.cmd.args = <<Gre0, Remote, <<"0">>, <<"7">>>>
    /\ Gre0 \in host.devs

\* C16: create_address(device, address, broadcast) issues exactly one
\* address-add command, which carries the broadcast clause if and only if a
\* broadcast value was given; a call without broadcast followed by a call
\* with one issue first the command without the clause, then the one with.
C16_BroadcastIffGiven ==
    \A s \in Sessions :
        LET st == sess[s]
            bc == st.call.opt.broadcast
        IN  /\ (st.call.op = "create_address" /\ st.issued # <<>>) =>
                  st.issued =
                     <<IF bc.some
                       THEN Cmd(<<T_addr_add_bc>>, <<st.call.a2, bc.s, st.call.a1>>)
                       ELSE Cmd(<<T_addr_add>>, <<st.call.a2, st.call.a1>>)>>
            /\ (st.plan = AddrTwice /\ Len(st.log) = Len(AddrTwice)) =>
                  /\ st.log[1].cmd.tpl = <<T_addr_add>>
                  /\ st.log[2].cmd.tpl = <<T_addr_add_bc>>
                  /\ st.log[2].cmd.args = <<AddrA, Bcast, Veth0>>

\* the two calls were made: the first command had no broadcast clause, the
\* second has it
C16_Witness ==
    /\ sess[1].plan = AddrTwice
    /\ sess[1].n = Len(AddrTwice)
    /\ Len(sess[1].log) = Len(AddrTwice)
    /\ sess[1].log[1].cmd = Cmd(<<T_addr_add>>, <<AddrA, Veth0>>)
    /\ last.cmd = Cmd(<<T_addr_add_bc>>, <<AddrA, Bcast, Veth0>>)
    /\ <<Veth0, AddrA>> \in host.addr4

\* the invocations a call of the operation makes before it returns
Invocations(op) ==
    CASE op = "create_bridge" -> 5
      [] op \in {"delete_bridge", "create_interface"} -> 2
      [] OTHER -> 1

\* C17 as stated: every operation issues exactly one external process
\* invocation per call.
C17_OneInvocationPerCall ==
    \A s \in Sessions :
        Returned(sess[s]) /\ sess[s].call.op # "none" =>
            Len(sess[s].issued) = 1

\* C17, amended: every operation issues its external process invocations one
\* after the other and returns only after the last one finished; a call
\* that returns has issued exactly one invocation, except create_bridge
\* (five), delete_bridge (two) and create_interface (two) in both backends,
\* and each invocation of a returned call has exited with status 0.
C17_InvocationsPerCall ==
    \A s \in Sessions :
        LET st == sess[s]
            mine == SelectSeq(st.log, LAMBDA e : e.n = st.n)
        IN  st.call.op # "none" =>
                /\ [i \in 1..Len(mine) |-> mine[i].cmd] = st.issued
                /\ st.pc = "running" =>
                      /\ Len(st.issued) < Invocations(st.call.op)
                      /\ st.ix = Len(st.issued) + 1
                      /\ \A i \in 1..Len(mine) : mine[i].ok
                /\ Returned(st) =>
                      /\ Len(st.issued) = Invocations(st.call.op)
                      /\ \A i \in 1..Len(mine) : mine[i].ok

\* create_bridge returned after five invocations, all finished
C17_Witness ==
    /\ sess[1].call.op = "create_bridge"
    /\ Returned(sess[1])
    /\ Len(sess[1].issued) = Invocations("create_bridge")
    /\ Len(sess[1].issued) > 1
    /\ last.ok
    /\ last.cmd.tpl = <<T_up>>

\* the session's existing_bridges call got its listing and ended
QueryEnded(st) ==
    /\ st.call.op = "existing_bridges"
    /\ st.pc # "running"
    /\ st.issued # <<>>
    /\ st.log[Len(st.log)].ok

\* C18: existing_bridges ignores every listed name that has not exactly
\* three fields without failing: whatever names the listing holds (none,
\* 'b', 'r0', names of two or four fields), both variants return a boolean
\* and never raise.
C18_NeverRaises ==
    \A s \in Sessions :
        QueryEnded(sess[s]) =>
            /\ sess[s].result.status = "ok"
            /\ sess[s].result.value \in {"True", "False"}

\* under Open vSwitch the listing held the dotless name b followed by a
\* bridge of another node, and existing_bridges(5) raised IndexError
C18_BugWitness ==
    /\ use_ovs
    /\ host.bridges = <<Nb, Nb70>>
    /\ sess[1].call = Call("existing_bridges", Id5, <<>>)
    /\ QueryEnded(sess[1])
    /\ sess[1].pc = "failed"
    /\ sess[1].result = [status |-> "IndexError", value |-> "None"]

\* what holds: the kernel-backend variant always returns a boolean, and the
\* Open vSwitch variant does when the listing holds no bare name b
C18_RaisesOnlyOnBareB ==
    \A s \in Sessions :
        (QueryEnded(sess[s]) /\ (~use_ovs \/ ~InSeq(Nb, host.bridges))) =>
            /\ sess[s].result.status = "ok"
            /\ sess[s].result.value \in {"True", "False"}

\* the six operations OvsNetClient defines for itself
BridgeOps ==
    {"create_bridge", "delete_bridge", "create_interface", "delete_interface",
     "existing_bridges", "disable_mac_learning"}

OvsTemplates ==
    {T_ovs_add, T_ovs_stp, T_ovs_maxage, T_ovs_fd, T_ovs_del, T_ovs_addport,
     T_ovs_delport, T_ovs_list, T_ovs_aging}

\* the commands of an operation outside the six, written once for both
\* backends
Shared(c) ==
    CASE c.op = "set_hostname" -> <<Cmd(<<T_hostname>>, <<c.a1>>)>>
      [] c.op = "create_route" -> <<Cmd(<<T_route_add>>, <<c.a1, c.a2>>)>>
      [] c.op = "device_up" -> <<Cmd(<<T_up>>, <<c.a1>>)>>
      [] c.op = "device_down" -> <<Cmd(<<T_down>>, <<c.a1>>)>>
      [] c.op = "device_name" -> <<Cmd(<<T_name>>, <<c.a1, c.a2>>)>>
      [] c.op = "device_show" -> <<Cmd(<<T_show>>, <<c.a1>>)>>
      [] c.op = "get_mac" -> <<Cmd(<<T_cat_address>>, <<c.a1>>)>>
      [] c.op = "get_ifindex" -> <<Cmd(<<T_cat_ifindex>>, <<c.a1>>)>>
      [] c.op = "device_ns" -> <<Cmd(<<T_netns>>, <<c.a1, c.a2>>)>>
      [] c.op = "device_flush" -> <<ShellCmd(<<T_flush>>, <<c.a1, c.a1>>)>>
      [] c.op = "device_mac" -> <<Cmd(<<T_mac>>, <<c.a1, c.a2>>)>>
      [] c.op = "delete_device" -> <<Cmd(<<T_link_del>>, <<c.a1>>)>>
      [] c.op = "delete_tc" -> <<Cmd(<<T_tc_del>>, <<c.a1>>)>>
      [] c.op = "checksums_off" -> <<Cmd(<<T_csum_off>>, <<c.a1>>)>>
      [] c.op = "delete_address" -> <<Cmd(<<T_addr_del>>, <<c.a2, c.a1>>)>>
      [] c.op = "create_veth" -> <<Cmd(<<T_veth_add>>, <<c.a1, c.a2>>)>>
      [] c.op = "create_address" ->
            create_address(c.a1, c.a2, c.opt.broadcast)
      [] c.op = "create_gretap" ->
            create_gretap(c.a1, c.a2, c.opt.local, c.opt.ttl, c.opt.key)

\* C19: get_net_client serves the Open vSwitch variant when use_ovs is true
\* and the kernel-bridge variant otherwise; the two differ in the six bridge
\* operations only: a call of any other operation, delete_tc and
\* checksums_off among them, issues the same command sequence for the same
\* arguments whichever backend is active.
C19_BackendsDifferInSixOps ==
    /\ \A c \in Calls \cup OtherCalls :
          (Method("OvsNetClient", c) = Method("LinuxNetClient", c))
              <=> c.op \notin BridgeOps
    /\ \A s \in Sessions :
          LET st == sess[s]
          IN  (st.call.op # "none" /\ st.issued # <<>>) =>
                  IF st.call.op \in BridgeOps
                  THEN \A i \in 1..Len(st.issued) :
                          st.issued[i].tpl[1] \in OvsTemplates
                              <=> use_ovs /\ st.issued[i].tpl[1] \notin {T_up, T_down}
                  ELSE /\ IsPrefix(st.issued, Shared(st.call))
                       /\ Returned(st) => st.issued = Shared(st.call)

\* with the Open vSwitch backend active, delete_tc('v0') ran the tc command
\* of the kernel-bridge variant
C19_Witness ==
    /\ use_ovs
    /\ get_net_client(use_ovs) = "OvsNetClient"
    /\ sess[1].plan = <<Call("delete_tc", Veth0, <<>>)>>
    /\ Returned(sess[1])
    /\ sess[1].issued = <<Cmd(<<T_tc_del>>, <<Veth0>>)>>
    /\ Veth0 \notin host.qdisc

====
